---- MODULE Spec2Model ----
(***************************************************************************)
(* mcp-docker-bridge: the result cache (shared/context.py), the daemon      *)
(* client facade (shared/docker_client.py) and the tool surface             *)
(* (tools/container.py), as state machines over small universes.            *)
(***************************************************************************)
EXTENDS Integers, Sequences, FiniteSets, TLC

VARIABLES
    client,                    \* DockerClientManager._client: 0 is None, h > 0 a DockerClient object
    detailed_container_cache,  \* AppContext.detailed_container_cache (a dict)
    basic_container_cache,     \* AppContext.basic_container_cache (a dict)
    last,                      \* the call that ran last: its name, arguments and outcome
    lifespan,                  \* where the server's lifespan() is, and its disconnect() calls
    tasks                      \* the tool calls in flight: their position and pending cache writes

vars == <<client, detailed_container_cache, basic_container_cache, last,
          lifespan, tasks>>

----------------------------------------------------------------------------
(* Universes *)

\* docker.from_env() returns one of NumHandles distinguishable DockerClient objects
NumHandles == 2

\* the longest list the daemon's list call returns
MaxList == 2

Handles == 1..NumHandles

Ids == {"c1", "c2"}
Names == {"web"}
Images == {"nginx"}

\* _extract_container_data gives a record the one name of its container, or none.
NameLists == {<<>>} \cup {<<n>> : n \in Names}

\* Python's None where a str is expected; no identifier equals it.
None == "<None>"

\* The 12-character short form of a container id, which the daemon also resolves.
ShortId(id) == IF id = "c1" THEN "s1" ELSE "s2"

ShortIds == {ShortId(i) : i \in Ids}

\* GetContainerParams.container_id: any string of length >= 1.
KeyArgs == Ids \cup ShortIds \cup Names

\* clear_container_cache(container_id: str | None)
ClearArgs == KeyArgs \cup {"", None}

EmptyCache == [k \in {} |-> [id |-> "", names |-> <<>>, image |-> ""]]

Range(s) == {s[i] : i \in DOMAIN s}

Aliases(R) == {R.id} \cup Range(R.names)

----------------------------------------------------------------------------
(* dict primitives *)

\* d[k] = v
Put(d, k, v) == [x \in DOMAIN d \cup {k} |-> IF x = k THEN v ELSE d[x]]

\* d.pop(k, None)
Pop(d, k) == [x \in DOMAIN d \ {k} |-> d[x]]

\* d.get(k): <<>> is None, <<v>> is the value
Get(d, k) == IF k \in DOMAIN d THEN <<d[k]>> ELSE <<>>

RECURSIVE PutAll(_, _, _)
\* for name in names: d[name] = v
PutAll(d, names, v) ==
    IF names = <<>> THEN d
    ELSE PutAll(Put(d, Head(names), v), Tail(names), v)

RECURSIVE PopAll(_, _)
\* for name in names: d.pop(name, None)
PopAll(d, names) ==
    IF names = <<>> THEN d
    ELSE PopAll(Pop(d, Head(names)), Tail(names))

----------------------------------------------------------------------------
(* AppContext *)

cache_detailed_container(cache, container_id, container_info) ==
    PutAll(Put(cache, container_id, container_info),
           container_info.names, container_info)

\* a store that forgets the name aliases
cache_basic_container_id_only(cache, container_info) ==
    Put(cache, container_info.id, container_info)

cache_basic_container(cache, container_info) ==
    PutAll(Put(cache, container_info.id, container_info),
           container_info.names, container_info)

get_cached_detailed_container(cache, container_id) == Get(cache, container_id)

get_cached_basic_container(cache, container_id) == Get(cache, container_id)

\* `if container_id:` is false for None and for the empty string
Truthy(container_id) == container_id \notin {None, ""}

\* One cache's part of clear_container_cache: the record found under the key
\* (a model object is always truthy) is popped under the key and its names.
ClearOne(cache, container_id) ==
    LET container == Get(cache, container_id)
    IN  IF container # <<>>
        THEN PopAll(Pop(cache, container_id), container[1].names)
        ELSE cache

clear_container_cache(detailed, basic, container_id) ==
    IF Truthy(container_id)
    THEN [detailed |-> ClearOne(detailed, container_id),
          basic    |-> ClearOne(basic, container_id)]
    ELSE [detailed |-> EmptyCache, basic |-> EmptyCache]

----------------------------------------------------------------------------
(* The daemon's loosely-typed JSON values *)

\* dict.get(key, default) and dict.get(key); a dict is a function on its keys
DictGet(d, k, default) == IF k \in DOMAIN d THEN d[k] ELSE default

\* dict.get(key) where None is kept apart from a value: <<>> is None
DictOpt(d, k) == IF k \in DOMAIN d THEN <<d[k]>> ELSE <<>>

EmptyDict == [k \in {} |-> 0]

\* a dict built from a choice per key: <<>> leaves the key out, <<v>> sets it
MkDict(choice) ==
    [k \in {x \in DOMAIN choice : choice[x] # <<>>} |-> choice[k][1]]

\* a dict without one of its keys
Without(d, key) == [k \in DOMAIN d \ {key} |-> d[k]]

\* the fields F of a record
Restrict(r, F) == [f \in F |-> r[f]]

\* A raw timestamp: None, a number, or the string body + suffix
PyNone == [py |-> "None", n |-> 0, body |-> "", suffix |-> ""]

PyInt(n) == [py |-> "int", n |-> n, body |-> "", suffix |-> ""]

PyStr(body, suffix) == [py |-> "str", n |-> 0, body |-> body, suffix |-> suffix]

\* bool(value)
PyTruthy(v) ==
    IF v.py = "None" THEN FALSE
    ELSE IF v.py = "int" THEN v.n # 0
    ELSE v.body # "" \/ v.suffix # ""

\* A raw State: a dict (inspect) or a bare status string (sparse listing)
StateDict(d) == [py |-> "dict", d |-> d, s |-> ""]

StateStr(s) == [py |-> "str", d |-> EmptyDict, s |-> s]

----------------------------------------------------------------------------
(* Timestamp normalizer *)

\* a datetime: parsed from ISO text, from epoch seconds, or the clock's "now";
\* offset "" is a naive datetime
Datetime(kind, body, n, offset) ==
    [kind |-> kind, body |-> body, n |-> n, offset |-> offset]

\* datetime.now(UTC)
Now == Datetime("now", "", 0, "+00:00")

\* None where a datetime is optional
NoDatetime == Datetime("None", "", 0, "")

\* date-time texts datetime.fromisoformat accepts, without their offset
IsoBodies == {"2024-05-01T10:00:00", "0001-01-01T00:00:00"}

IsoOffsets == {"+00:00", "+02:00"}

\* datetime.fromisoformat(body + suffix): <<>> is ValueError
fromisoformat(body, suffix) ==
    IF body \in IsoBodies /\ suffix \in IsoOffsets \cup {""}
    THEN <<Datetime("iso", body, 0, suffix)>>
    ELSE <<>>

_parse_iso_datetime(iso_string) ==
    IF iso_string.suffix = "Z"
    THEN LET parsed == fromisoformat(iso_string.body, "+00:00")
         IN  IF parsed # <<>> THEN parsed[1] ELSE Now
    ELSE LET parsed == fromisoformat(iso_string.body, iso_string.suffix)
         IN  IF parsed = <<>> THEN Now
             ELSE IF parsed[1].offset = ""
             THEN [parsed[1] EXCEPT !.offset = "+00:00"]
             ELSE parsed[1]

_parse_datetime_value(value) ==
    IF value.py = "str" THEN _parse_iso_datetime(value)
    ELSE IF value.py = "int" /\ value.n > 0
    THEN Datetime("epoch", "", value.n, "+00:00")
    ELSE Now

\* state_data is a dict here; on a str the .get raises AttributeError
_parse_state_datetime(state_data, key) ==
    LET datetime_value == DictGet(state_data, key, PyNone)
    IN  IF PyTruthy(datetime_value)
        THEN _parse_datetime_value(datetime_value)
        ELSE NoDatetime

----------------------------------------------------------------------------
(* Record mapper *)

\* a mapper's outcome: the record, or the exception it raised
Mapped(v) == [ok |-> TRUE, value |-> <<v>>, error |-> "", text |-> ""]

MapFails(e, t) == [ok |-> FALSE, value |-> <<>>, error |-> e, text |-> t]

PortTypes == {"tcp", "udp"}

\* ContainerPort(private_port=..., public_port=..., type=DockerPortType(...), ip=...)
ParsePort(port_data) ==
    LET type == DictGet(port_data, "Type", "tcp")
    IN  IF type \in PortTypes
        THEN Mapped([private_port |-> DictGet(port_data, "PrivatePort", 0),
                     public_port  |-> DictOpt(port_data, "PublicPort"),
                     type         |-> type,
                     ip           |-> DictOpt(port_data, "IP")])
        ELSE MapFails("ValueError", "is not a valid DockerPortType")

RECURSIVE _parse_ports(_)
_parse_ports(ports_data) ==
    IF ports_data = <<>> THEN Mapped(<<>>)
    ELSE LET port == ParsePort(Head(ports_data))
             rest == _parse_ports(Tail(ports_data))
         IN  IF ~port.ok THEN port
             ELSE IF ~rest.ok THEN rest
             ELSE Mapped(<<port.value[1]>> \o rest.value[1])

_extract_state_string(state_data) ==
    IF state_data.py = "dict"
    THEN DictGet(state_data.d, "Status", "")
    ELSE state_data.s

_extract_container_data(container) ==
    [Id      |-> container.id,
     Names   |-> IF container.name # "" THEN <<container.name>> ELSE <<>>,
     Image   |-> DictGet(container.attrs, "Image", ""),
     Created |-> DictGet(container.attrs, "Created", PyInt(0)),
     Ports   |-> DictGet(container.attrs, "Ports", <<>>),
     State   |-> DictGet(container.attrs, "State", StateDict(EmptyDict))]

_convert_container_data(container_data) ==
    LET ports == _parse_ports(container_data.Ports)
        state_data == container_data.State
    IN  IF ~ports.ok THEN ports
        ELSE IF state_data.py # "dict"
        THEN MapFails("AttributeError", "'str' object has no attribute 'get'")
        ELSE Mapped(
            [id          |-> container_data.Id,
             names       |-> container_data.Names,
             image       |-> container_data.Image,
             state       |-> _extract_state_string(state_data),
             created_at  |-> _parse_datetime_value(container_data.Created),
             started_at  |-> _parse_state_datetime(state_data.d, "StartedAt"),
             finished_at |-> _parse_state_datetime(state_data.d, "FinishedAt"),
             ports       |-> ports.value[1]])

----------------------------------------------------------------------------
(* Detail mapper: the sections of a raw inspect record *)

\* `value or default` on an optional value: <<>> (None) and falsy values give
\* the default
OrElse(opt, falsy, default) ==
    IF opt = <<>> \/ opt[1] = falsy THEN default ELSE opt[1]

NetworkEndpoint(data) ==
    [network_id             |-> DictGet(data, "NetworkID", ""),
     endpoint_id            |-> DictGet(data, "EndpointID", ""),
     gateway                |-> DictOpt(data, "Gateway"),
     ip_address             |-> DictOpt(data, "IPAddress"),
     ip_prefix_len          |-> DictOpt(data, "IPPrefixLen"),
     ipv6_gateway           |-> DictOpt(data, "IPv6Gateway"),
     global_ipv6_address    |-> DictOpt(data, "GlobalIPv6Address"),
     global_ipv6_prefix_len |-> DictOpt(data, "GlobalIPv6PrefixLen"),
     mac_address            |-> DictOpt(data, "MacAddress")]

_parse_networks(networks) ==
    [name \in DOMAIN networks |-> NetworkEndpoint(networks[name])]

Mount(mount) ==
    [type        |-> DictGet(mount, "Type", "bind"),
     source      |-> DictGet(mount, "Source", ""),
     destination |-> DictGet(mount, "Destination", ""),
     mode        |-> DictGet(mount, "Mode", "rw"),
     rw          |-> DictGet(mount, "RW", TRUE),
     propagation |-> DictGet(mount, "Propagation", "rprivate")]

_parse_mounts(mounts) == [i \in DOMAIN mounts |-> Mount(mounts[i])]

\* a restart-policy parser whose default policy is "always"
_parse_restart_policy_always(policy) ==
    [name                |-> DictGet(policy, "Name", "always"),
     maximum_retry_count |-> DictGet(policy, "MaximumRetryCount", 0)]

_parse_restart_policy(policy) ==
    [name                |-> DictGet(policy, "Name", "no"),
     maximum_retry_count |-> DictGet(policy, "MaximumRetryCount", 0)]

_parse_resources(host_config) ==
    [cpu_shares         |-> DictOpt(host_config, "CpuShares"),
     cpu_period         |-> DictOpt(host_config, "CpuPeriod"),
     cpu_quota          |-> DictOpt(host_config, "CpuQuota"),
     cpuset_cpus        |-> DictOpt(host_config, "CpusetCpus"),
     cpuset_mems        |-> DictOpt(host_config, "CpusetMems"),
     memory             |-> DictOpt(host_config, "Memory"),
     memory_swap        |-> DictOpt(host_config, "MemorySwap"),
     memory_reservation |-> DictOpt(host_config, "MemoryReservation"),
     kernel_memory      |-> DictOpt(host_config, "KernelMemory"),
     blkio_weight       |-> DictOpt(host_config, "BlkioWeight"),
     pids_limit         |-> DictOpt(host_config, "PidsLimit")]

\* health_check is config.get('Healthcheck'): <<>> is None; an empty dict is falsy
_parse_health_check(health_check) ==
    IF health_check = <<>> \/ DOMAIN health_check[1] = {}
    THEN <<>>
    ELSE <<[test         |-> DictOpt(health_check[1], "Test"),
            interval     |-> DictOpt(health_check[1], "Interval"),
            timeout      |-> DictOpt(health_check[1], "Timeout"),
            retries      |-> DictOpt(health_check[1], "Retries"),
            start_period |-> DictOpt(health_check[1], "StartPeriod")]>>

\* The body of the `try` of get_container after the remote call: the
\* DetailedContainerInfo(...) built from container.attrs, its keyword arguments
\* evaluated in the order they are written.
DetailedContainerInfo(container) ==
    LET attrs == container.attrs
        config == DictGet(attrs, "Config", EmptyDict)
        host_config == DictGet(attrs, "HostConfig", EmptyDict)
        state == DictGet(attrs, "State", StateDict(EmptyDict))
        network_settings == DictGet(attrs, "NetworkSettings", EmptyDict)
        basic_data == _extract_container_data(container)
        ports == _parse_ports(basic_data.Ports)
    IN  IF state.py # "dict"
        THEN MapFails("AttributeError", "'str' object has no attribute 'get'")
        ELSE IF ~ports.ok THEN ports
        ELSE Mapped(
            [id            |-> basic_data.Id,
             names         |-> basic_data.Names,
             image         |-> basic_data.Image,
             created_at    |-> _parse_datetime_value(basic_data.Created),
             state         |-> _extract_state_string(state),
             started_at    |-> _parse_datetime_value(
                                   DictGet(state.d, "StartedAt", PyNone)),
             finished_at   |-> _parse_datetime_value(
                                   DictGet(state.d, "FinishedAt", PyNone)),
             ports         |-> ports.value[1],
             image_id      |-> DictGet(attrs, "Image", ""),
             status        |-> DictGet(state.d, "Status", "unknown"),
             entrypoint    |-> DictOpt(config, "Entrypoint"),
             cmd           |-> DictOpt(config, "Cmd"),
             working_dir   |-> DictOpt(config, "WorkingDir"),
             user          |-> DictOpt(config, "User"),
             hostname      |-> DictOpt(config, "Hostname"),
             domainname    |-> DictOpt(config, "Domainname"),
             env           |-> DictGet(config, "Env", <<>>),
             labels        |-> DictGet(config, "Labels", EmptyDict),
             exit_code     |-> DictOpt(state.d, "ExitCode"),
             error         |-> LET e == DictOpt(state.d, "Error")
                               IN  IF e = <<>> \/ e[1] = "" THEN <<>> ELSE e,
             running       |-> DictGet(state.d, "Running", FALSE),
             paused        |-> DictGet(state.d, "Paused", FALSE),
             restarting    |-> DictGet(state.d, "Restarting", FALSE),
             pid           |-> DictOpt(state.d, "Pid"),
             network_mode  |-> DictGet(host_config, "NetworkMode", "default"),
             exposed_ports |-> DictGet(config, "ExposedPorts", EmptyDict),
             networks      |-> _parse_networks(
                                   DictGet(network_settings, "Networks", EmptyDict)),
             mounts        |-> _parse_mounts(DictGet(attrs, "Mounts", <<>>)),
             volumes       |-> DictGet(config, "Volumes", EmptyDict),
             restart_policy |-> _parse_restart_policy(
                                   DictGet(host_config, "RestartPolicy", EmptyDict)),
             resources     |-> _parse_resources(host_config),
             privileged    |-> DictGet(host_config, "Privileged", FALSE),
             cap_add       |-> OrElse(DictOpt(host_config, "CapAdd"), <<>>, <<>>),
             cap_drop      |-> OrElse(DictOpt(host_config, "CapDrop"), <<>>, <<>>),
             health_check  |-> _parse_health_check(DictOpt(config, "Healthcheck")),
             log_config    |-> DictGet(host_config, "LogConfig", EmptyDict),
             tty           |-> DictGet(config, "Tty", FALSE),
             stdin_open    |-> DictGet(config, "OpenStdin", FALSE),
             extra_hosts   |-> OrElse(DictOpt(host_config, "ExtraHosts"), <<>>, <<>>),
             group_add     |-> OrElse(DictOpt(host_config, "GroupAdd"), <<>>, <<>>),
             security_opt  |-> OrElse(DictOpt(host_config, "SecurityOpt"), <<>>, <<>>)])

----------------------------------------------------------------------------
(* Filter builder (ListContainersFilters) *)

FilterFields ==
    {"exited", "status", "label", "id", "name", "ancestor", "before", "since"}

\* DockerContainerFilterKey(field_name): every field of the request is a key
DockerContainerFilterKeys ==
    {"exited", "status", "label", "id", "name", "ancestor", "before", "since"}

\* A field's value: None, an int, a DockerContainerState member, a str or a
\* list of str
FNone == [py |-> "None", n |-> 0, s |-> "", l |-> <<>>]

FInt(n) == [py |-> "int", n |-> n, s |-> "", l |-> <<>>]

FEnum(v) == [py |-> "enum", n |-> 0, s |-> v, l |-> <<>>]

FStr(s) == [py |-> "str", n |-> 0, s |-> s, l |-> <<>>]

FList(l) == [py |-> "list", n |-> 0, s |-> "", l |-> l]

\* self.model_dump(exclude_none=True)
model_dump_exclude_none(request) ==
    [f \in {x \in DOMAIN request : request[x].py # "None"} |-> request[f]]

\* a filter builder that drops falsy values, not just None
to_docker_filters_truthy(request) ==
    LET data == [f \in {x \in DOMAIN request :
                          /\ request[x].py # "None"
                          /\ request[x] \notin {FInt(0), FStr(""), FList(<<>>)}}
                   |-> request[f]]
    IN  [f \in DOMAIN data \cap DockerContainerFilterKeys |->
            IF f = "status" /\ data[f].py = "enum" THEN FStr(data[f].s)
            ELSE IF f = "label"
            THEN IF data[f].py = "list" THEN data[f] ELSE FList(<<data[f].s>>)
            ELSE data[f]]

to_docker_filters(request) ==
    LET data == model_dump_exclude_none(request)
    IN  [f \in DOMAIN data \cap DockerContainerFilterKeys |->
            IF f = "status" /\ data[f].py = "enum" THEN FStr(data[f].s)
            ELSE IF f = "label"
            THEN IF data[f].py = "list" THEN data[f] ELSE FList(<<data[f].s>>)
            ELSE data[f]]

----------------------------------------------------------------------------
(* The Docker daemon, as the facade sees it *)

\* container.attrs of a running container as an inspect call reports it
GoodAttrs ==
    [Image   |-> "nginx",
     Created |-> PyStr("2024-05-01T10:00:00", "Z"),
     State   |-> StateDict([Status    |-> "running",
                            Running   |-> TRUE,
                            StartedAt |-> PyStr("2024-05-01T10:00:00", "Z")])]

\* the same with a published SCTP port among its Ports
SctpAttrs ==
    [Image   |-> "nginx",
     Created |-> PyStr("2024-05-01T10:00:00", "Z"),
     State   |-> StateDict([Status    |-> "running",
                            Running   |-> TRUE,
                            StartedAt |-> PyStr("2024-05-01T10:00:00", "Z")]),
     Ports   |-> <<[PrivatePort |-> 53, Type |-> "sctp"]>>]

\* A docker Container object: its id, its name ("" when it has none) and attrs.
GoodContainers == [id : Ids, name : Names \cup {""}, attrs : {GoodAttrs}]

\* The daemon's containers: c1, which is named web or unnamed and may publish
\* an SCTP port, and the unnamed c2.
DaemonContainers ==
    {c \in GoodContainers : c.id = "c1" \/ c.name = ""}
    \cup {[id |-> "c1", name |-> "", attrs |-> SctpAttrs]}

\* ContainerInfo objects, as the mapper builds them
Records ==
    {_convert_container_data(_extract_container_data(c)).value[1] :
        c \in GoodContainers}

\* DetailedContainerInfo objects, as get_container builds them
DetailedRecords == {DetailedContainerInfo(c).value[1] : c \in GoodContainers}

RECURSIVE SeqsUpTo(_, _)
SeqsUpTo(S, n) ==
    IF n = 0 THEN {<<>>}
    ELSE LET shorter == SeqsUpTo(S, n - 1)
         IN  shorter \cup {Append(q, x) : q \in {t \in shorter : Len(t) = n - 1}, x \in S}

\* What the daemon answers to an identifier: it resolves a full id, a short id
\* or a name.
Resolves(container_id, c) ==
    \/ container_id = c.id
    \/ container_id = ShortId(c.id)
    \/ (c.name # "" /\ container_id = c.name)

\* The daemon lists a container once, and no two of its containers share a name.
Listing(cs) ==
    \A i, j \in DOMAIN cs :
        i # j => /\ cs[i].id # cs[j].id
                 /\ (cs[i].name = "" \/ cs[i].name # cs[j].name)

\* Outcomes of client.containers.list(**kwargs)
ListResponses ==
    {[ok |-> TRUE, containers |-> cs, error |-> "", text |-> ""] :
        cs \in {q \in SeqsUpTo(DaemonContainers, MaxList) : Listing(q)}}
    \cup {[ok |-> FALSE, containers |-> <<>>, error |-> "APIError",
           text |-> "500 Server Error"]}

\* Outcomes of client.containers.get(container_id)
InspectResponses(container_id) ==
    {[ok |-> TRUE, container |-> <<c>>, error |-> "", text |-> ""] :
        c \in {d \in DaemonContainers : Resolves(container_id, d)}}
    \cup {[ok |-> FALSE, container |-> <<>>, error |-> "NotFound",
           text |-> "404 Client Error"],
          [ok |-> FALSE, container |-> <<>>, error |-> "APIError",
           text |-> "500 Server Error"]}

----------------------------------------------------------------------------
(* The server session and its tool calls in flight *)

\* the most tool calls in flight at once
NumTasks == 2

Tasks == 1..NumTasks

\* lifespan() has not been entered
NotStarted == [pc |-> "start", ending |-> "", disconnects |-> 0]

\* a tool call that has not begun
Idle == [pc |-> "idle", tool |-> "", todo |-> <<>>]

NoTasks == [t \in Tasks |-> Idle]

----------------------------------------------------------------------------
(* Calls on the cache *)

Call_cache_detailed_container ==
    \E R \in DetailedRecords :
        /\ detailed_container_cache' =
               cache_detailed_container(detailed_container_cache, R.id, R)
        /\ last' = [op |-> "cache_detailed_container", key |-> R.id, info |-> R]
        /\ UNCHANGED <<client, basic_container_cache, lifespan, tasks>>

Call_cache_basic_container ==
    \E R \in Records :
        /\ basic_container_cache' = cache_basic_container(basic_container_cache, R)
        /\ last' = [op |-> "cache_basic_container", key |-> R.id, info |-> R]
        /\ UNCHANGED <<client, detailed_container_cache, lifespan, tasks>>

Call_get_cached_detailed_container ==
    \E k \in KeyArgs :
        /\ last' = [op |-> "get_cached_detailed_container", key |-> k,
                    found |-> get_cached_detailed_container(detailed_container_cache, k)]
        /\ UNCHANGED <<client, detailed_container_cache, basic_container_cache, lifespan, tasks>>

Call_get_cached_basic_container ==
    \E k \in KeyArgs :
        /\ last' = [op |-> "get_cached_basic_container", key |-> k,
                    found |-> get_cached_basic_container(basic_container_cache, k)]
        /\ UNCHANGED <<client, detailed_container_cache, basic_container_cache, lifespan, tasks>>

Call_clear_container_cache ==
    \E k \in ClearArgs :
        LET out == clear_container_cache(detailed_container_cache,
                                         basic_container_cache, k)
        IN  /\ detailed_container_cache' = out.detailed
            /\ basic_container_cache' = out.basic
            /\ last' = [op |-> "clear_container_cache", key |-> k,
                        was_detailed |-> Get(detailed_container_cache, k),
                        was_basic |-> Get(basic_container_cache, k)]
            /\ UNCHANGED <<client, lifespan, tasks>>

----------------------------------------------------------------------------
(* Outcome of a call: a returned value or a raised exception, and the number
   of remote calls it made.  A message is the sequence of its parts. *)

Return(v, n) ==
    [raised |-> FALSE, type |-> "", msg |-> <<>>, value |-> <<v>>, remote |-> n]

Raise(t, m, n) ==
    [raised |-> TRUE, type |-> t, msg |-> m, value |-> <<>>, remote |-> n]

----------------------------------------------------------------------------
(* DockerClientManager *)

_is_connected(cl) == cl # 0

RECURSIVE ConvertAll(_)
\* the loop of list_containers over the daemon's records, in order; the first
\* record the mapper fails on ends it
ConvertAll(containers) ==
    IF containers = <<>> THEN Mapped(<<>>)
    ELSE LET info == _convert_container_data(_extract_container_data(Head(containers)))
             rest == ConvertAll(Tail(containers))
         IN  IF ~info.ok THEN info
             ELSE IF ~rest.ok THEN rest
             ELSE Mapped(<<info.value[1]>> \o rest.value[1])

\* what a facade call does with the mapper's outcome
Mapping(m, prefix, n) ==
    IF m.ok THEN Return(m.value[1], n)
    ELSE IF prefix = <<>> THEN Raise(m.error, <<m.text>>, n)
    ELSE Raise("RuntimeError", prefix \o <<m.text>>, n)

\* a connect without the early return for an existing client
connect_no_early_return(cl, how, h) ==
    IF how = "from_env_fails"
    THEN [client |-> cl, raised |-> TRUE, created |-> 0, pings |-> 0]
    ELSE IF how = "ping_fails"
    THEN [client |-> h, raised |-> TRUE, created |-> 1, pings |-> 1]
    ELSE [client |-> h, raised |-> FALSE, created |-> 1, pings |-> 1]

\* connect(): how = "from_env_fails", "ping_fails" or "ok"; h the new object
connect(cl, how, h) ==
    IF cl # 0
    THEN [client |-> cl, raised |-> FALSE, created |-> 0, pings |-> 0]
    ELSE IF how = "from_env_fails"
    THEN [client |-> cl, raised |-> TRUE, created |-> 0, pings |-> 0]
    ELSE IF how = "ping_fails"
    THEN [client |-> h, raised |-> TRUE, created |-> 1, pings |-> 1]
    ELSE [client |-> h, raised |-> FALSE, created |-> 1, pings |-> 1]

\* a disconnect that resets the client after close() instead of in `finally`
disconnect_no_finally(cl, close_raises) ==
    IF cl # 0
    THEN IF close_raises
         THEN [client |-> cl, raised |-> FALSE, closed |-> 1]
         ELSE [client |-> 0, raised |-> FALSE, closed |-> 1]
    ELSE [client |-> cl, raised |-> FALSE, closed |-> 0]

\* disconnect(): close_raises says whether self._client.close() raises
disconnect(cl, close_raises) ==
    IF cl # 0
    THEN IF close_raises
         THEN [client |-> 0, raised |-> FALSE, closed |-> 1]  \* except: logged; finally: None
         ELSE [client |-> 0, raised |-> FALSE, closed |-> 1]  \* finally: None
    ELSE [client |-> cl, raised |-> FALSE, closed |-> 0]

\* a list_containers that asks the daemon a second time when the call fails
DockerClientManager_list_containers_retry(cl, resp) ==
    IF cl = 0
    THEN Raise("RuntimeError",
               <<"Docker client is not connected. Call connect() first.">>, 0)
    ELSE IF ~resp.ok
    THEN Raise(resp.error, <<resp.text>>, 2)
    ELSE Mapping(ConvertAll(resp.containers), <<>>, 1)

DockerClientManager_list_containers(cl, resp) ==
    IF cl = 0
    THEN Raise("RuntimeError",
               <<"Docker client is not connected. Call connect() first.">>, 0)
    ELSE IF ~resp.ok
    THEN Raise(resp.error, <<resp.text>>, 1)
    ELSE Mapping(ConvertAll(resp.containers), <<>>, 1)

\* a get_container without the connection check before the remote call
DockerClientManager_get_container_unchecked(cl, container_id, resp) ==
    IF resp.ok
    THEN Mapping(DetailedContainerInfo(resp.container[1]),
                 <<"Failed to get container information: ">>, 1)
    ELSE IF resp.error = "NotFound"
    THEN Raise("RuntimeError", <<"Container not found: ", container_id>>, 1)
    ELSE Raise("RuntimeError",
               <<"Failed to get container information: ", resp.text>>, 1)

\* a get_container whose generic handler also catches the daemon's NotFound
DockerClientManager_get_container_generic(cl, container_id, resp) ==
    IF ~_is_connected(cl)
    THEN Raise("RuntimeError", <<"Docker client is not connected">>, 0)
    ELSE IF resp.ok
    THEN Mapping(DetailedContainerInfo(resp.container[1]),
                 <<"Failed to get container information: ">>, 1)
    ELSE Raise("RuntimeError",
               <<"Failed to get container information: ", resp.text>>, 1)

\* a get_container that reports every failed inspect call as not-found
DockerClientManager_get_container_not_found(cl, container_id, resp) ==
    IF ~_is_connected(cl)
    THEN Raise("RuntimeError", <<"Docker client is not connected">>, 0)
    ELSE IF resp.ok
    THEN Mapping(DetailedContainerInfo(resp.container[1]),
                 <<"Failed to get container information: ">>, 1)
    ELSE Raise("RuntimeError", <<"Container not found: ", container_id>>, 1)

DockerClientManager_get_container(cl, container_id, resp) ==
    IF ~_is_connected(cl)
    THEN Raise("RuntimeError", <<"Docker client is not connected">>, 0)
    ELSE IF resp.ok
    THEN Mapping(DetailedContainerInfo(resp.container[1]),
                 <<"Failed to get container information: ">>, 1)
    ELSE IF resp.error = "NotFound"
    THEN Raise("RuntimeError", <<"Container not found: ", container_id>>, 1)
    ELSE Raise("RuntimeError",
               <<"Failed to get container information: ", resp.text>>, 1)

----------------------------------------------------------------------------
(* Calls on the facade *)

Call_connect ==
    \E how \in {"from_env_fails", "ping_fails", "ok"}, h \in Handles :
        LET out == connect(client, how, h)
        IN  /\ client' = out.client
            /\ last' = [op |-> "connect", before |-> client, how |-> how,
                        raised |-> out.raised, created |-> out.created,
                        pings |-> out.pings]
            /\ UNCHANGED <<detailed_container_cache, basic_container_cache, lifespan, tasks>>

Call_disconnect ==
    \E close_raises \in BOOLEAN :
        LET out == disconnect(client, close_raises)
        IN  /\ client' = out.client
            /\ last' = [op |-> "disconnect", before |-> client,
                        close_raises |-> close_raises,
                        raised |-> out.raised, closed |-> out.closed]
            /\ UNCHANGED <<detailed_container_cache, basic_container_cache, lifespan, tasks>>

Call_DockerClientManager_list_containers ==
    \E resp \in ListResponses :
        /\ last' = [op |-> "DockerClientManager.list_containers", before |-> client,
                    resp |-> resp,
                    out |-> DockerClientManager_list_containers(client, resp)]
        /\ UNCHANGED <<client, detailed_container_cache, basic_container_cache, lifespan, tasks>>

Call_DockerClientManager_get_container ==
    \E k \in KeyArgs :
        \E resp \in InspectResponses(k) :
            /\ last' = [op |-> "DockerClientManager.get_container", before |-> client,
                        key |-> k, resp |-> resp,
                        out |-> DockerClientManager_get_container(client, k, resp)]
            /\ UNCHANGED <<client, detailed_container_cache, basic_container_cache, lifespan, tasks>>

----------------------------------------------------------------------------
(* The tool surface (tools/container.py) *)

RECURSIVE CacheAll(_, _)
\* for container in containers: app_context.cache_basic_container(container)
CacheAll(cache, containers) ==
    IF containers = <<>> THEN cache
    ELSE CacheAll(cache_basic_container(cache, Head(containers)), Tail(containers))

\* a list_containers that handles only the daemon's APIError
list_containers_api_errors_only(cl, basic, resp) ==
    LET got == DockerClientManager_list_containers(cl, resp)
    IN  IF ~got.raised
        THEN [out   |-> Return([containers  |-> got.value[1],
                                total_count |-> Len(got.value[1])], got.remote),
              basic |-> CacheAll(basic, got.value[1])]
        ELSE IF got.type = "APIError"
        THEN [out   |-> Raise("RuntimeError",
                              <<"Docker API error: ">> \o got.msg, got.remote),
              basic |-> basic]
        ELSE [out |-> got, basic |-> basic]

list_containers(cl, basic, resp) ==
    LET got == DockerClientManager_list_containers(cl, resp)
    IN  IF ~got.raised
        THEN [out   |-> Return([containers  |-> got.value[1],
                                total_count |-> Len(got.value[1])], got.remote),
              basic |-> CacheAll(basic, got.value[1])]
        ELSE IF got.type = "APIError"
        THEN [out   |-> Raise("RuntimeError",
                              <<"Docker API error: ">> \o got.msg, got.remote),
              basic |-> basic]
        ELSE [out   |-> Raise("RuntimeError",
                              <<"Unexpected error listing containers: ">> \o got.msg,
                              got.remote),
              basic |-> basic]

\* a fetch that drops the requested key from the cache when the call fails
Fetch_evicts_on_failure(cl, detailed, container_id, resp) ==
    LET got == DockerClientManager_get_container(cl, container_id, resp)
    IN  IF ~got.raised
        THEN [out      |-> Return(got.value[1], got.remote),
              detailed |-> cache_detailed_container(detailed, got.value[1].id,
                                                    got.value[1])]
        ELSE [out      |-> Raise("RuntimeError",
                                 <<"Failed to get container information: ">> \o got.msg,
                                 got.remote),
              detailed |-> Pop(detailed, container_id)]

\* the `try` of get_container: fetch from the daemon, store, return
Fetch(cl, detailed, container_id, resp) ==
    LET got == DockerClientManager_get_container(cl, container_id, resp)
    IN  IF ~got.raised
        THEN [out      |-> Return(got.value[1], got.remote),
              detailed |-> cache_detailed_container(detailed, got.value[1].id,
                                                    got.value[1])]
        ELSE [out      |-> Raise("RuntimeError",
                                 <<"Failed to get container information: ">> \o got.msg,
                                 got.remote),
              detailed |-> detailed]

\* a get_container that consults the detail cache whatever use_cache says
get_container_always_cached(cl, detailed, basic, container_id, use_cache, resp) ==
    LET cached_info == get_cached_detailed_container(detailed, container_id)
    IN  IF cached_info # <<>>
        THEN [out |-> Return(cached_info[1], 0), detailed |-> detailed]
        ELSE Fetch(cl, detailed, container_id, resp)

\* a get_container that answers from the summary cache when it can
get_container_from_summary(cl, detailed, basic, container_id, use_cache, resp) ==
    LET cached_info == IF use_cache
                       THEN get_cached_detailed_container(detailed, container_id)
                       ELSE <<>>
        basic_info == get_cached_basic_container(basic, container_id)
    IN  IF cached_info # <<>>
        THEN [out |-> Return(cached_info[1], 0), detailed |-> detailed]
        ELSE IF basic_info # <<>>
        THEN [out |-> Return(basic_info[1], 0), detailed |-> detailed]
        ELSE Fetch(cl, detailed, container_id, resp)

get_container(cl, detailed, basic, container_id, use_cache, resp) ==
    LET cached_info == IF use_cache
                       THEN get_cached_detailed_container(detailed, container_id)
                       ELSE <<>>
        basic_info == get_cached_basic_container(basic, container_id)
    IN  IF cached_info # <<>>
        THEN [out |-> Return(cached_info[1], 0), detailed |-> detailed]
        ELSE IF basic_info # <<>>
        THEN Fetch(cl, detailed, container_id, resp)   \* the summary is only logged
        ELSE Fetch(cl, detailed, container_id, resp)

Call_list_containers ==
    \E resp \in ListResponses :
        LET r == list_containers(client, basic_container_cache, resp)
        IN  /\ basic_container_cache' = r.basic
            /\ last' = [op |-> "list_containers", before |-> client,
                        resp |-> resp, out |-> r.out]
            /\ UNCHANGED <<client, detailed_container_cache, lifespan, tasks>>

Call_get_container ==
    \E k \in KeyArgs, use_cache \in BOOLEAN :
        \E resp \in InspectResponses(k) :
            LET r == get_container(client, detailed_container_cache,
                                   basic_container_cache, k, use_cache, resp)
            IN  /\ detailed_container_cache' = r.detailed
                /\ last' = [op |-> "get_container", before |-> client, key |-> k,
                            use_cache |-> use_cache, resp |-> resp, out |-> r.out]
                /\ UNCHANGED <<client, basic_container_cache, lifespan, tasks>>

----------------------------------------------------------------------------
(* The mappers and the filter builder on their own: inputs from bounded sets *)

\* an optional key of a raw dict: left out, or one of the values
Optional(values) == {<<>>} \cup {<<v>> : v \in values}

\* raw State.StartedAt values: None, numbers, date-time texts, other texts
RawTimes ==
    {PyNone, PyInt(0), PyInt(-5), PyInt(1700000000), PyStr("", ""),
     PyStr("2024-05-01T10:00:00", "Z"), PyStr("2024-05-01T10:00:00", ""),
     PyStr("2024-05-01T10:00:00", "+02:00"), PyStr("0001-01-01T00:00:00", "Z"),
     PyStr("yesterday", "")}

RawStates ==
    {StateStr("running"), StateStr("")}
    \cup {StateDict(MkDict([Status |-> status, StartedAt |-> started,
                            FinishedAt |-> finished])) :
            status \in Optional({"running"}),
            started \in Optional(RawTimes),
            finished \in Optional({PyStr("2024-05-01T10:00:00", "Z"),
                                   PyStr("yesterday", "")})}

RawPorts ==
    {<<>>,
     <<[PrivatePort |-> 80, PublicPort |-> 8080, Type |-> "tcp", IP |-> "0.0.0.0"]>>,
     <<[Type |-> "udp"]>>,
     <<[PrivatePort |-> 53, Type |-> "sctp"]>>}

\* Container objects of a list call, sparse or not
RawContainers ==
    {[id |-> "c1", name |-> name,
      attrs |-> MkDict([Image |-> image, Created |-> created,
                        Ports |-> ports, State |-> state])] :
        name \in Names \cup {""},
        image \in Optional(Images),
        created \in Optional({PyInt(1700000000), PyStr("2024-05-01T10:00:00", "Z"),
                              PyStr("yesterday", "")}),
        ports \in Optional(RawPorts),
        state \in Optional(RawStates)}

ConfigA ==
    [Entrypoint |-> <<"nginx">>, Cmd |-> <<"-g">>, WorkingDir |-> "/app",
     User |-> "root", Hostname |-> "h1", Domainname |-> "local",
     Env |-> <<"A=1">>, Labels |-> [app |-> "web"],
     ExposedPorts |-> [tcp80 |-> EmptyDict], Volumes |-> [data |-> EmptyDict],
     Tty |-> TRUE, OpenStdin |-> TRUE,
     Healthcheck |-> [Test |-> <<"CMD", "true">>, Interval |-> 5, Retries |-> 2]]

HostConfigA ==
    [NetworkMode |-> "bridge",
     RestartPolicy |-> [Name |-> "on-failure", MaximumRetryCount |-> 3],
     Privileged |-> TRUE, CapAdd |-> <<"NET_ADMIN">>,
     LogConfig |-> [Type |-> "json-file"], Memory |-> 1024, CpuShares |-> 2]

StateA ==
    StateDict([Status |-> "running", Running |-> TRUE, Paused |-> TRUE,
               Restarting |-> TRUE, Pid |-> 7, ExitCode |-> 0, Error |-> "",
               StartedAt |-> PyStr("2024-05-01T10:00:00", "Z"),
               FinishedAt |-> PyStr("0001-01-01T00:00:00", "Z")])

NetworkSettingsA ==
    [Networks |-> [bridge |-> [NetworkID |-> "n1", EndpointID |-> "e1",
                               IPAddress |-> "172.17.0.2", IPPrefixLen |-> 16]]]

MountsA ==
    <<[Type |-> "volume", Source |-> "data", Destination |-> "/data", RW |-> FALSE]>>

\* Container objects of an inspect call: each section present or absent
InspectContainers ==
    {[id |-> "c1", name |-> name,
      attrs |-> MkDict([Image |-> <<"sha256:abc">>, Created |-> created,
                        Ports |-> ports, State |-> state, Config |-> config,
                        HostConfig |-> host_config,
                        NetworkSettings |-> network_settings,
                        Mounts |-> mounts])] :
        name \in Names \cup {""},
        created \in Optional({PyStr("2024-05-01T10:00:00", "Z")}),
        ports \in Optional({<<[PrivatePort |-> 53, Type |-> "sctp"]>>}),
        state \in Optional({StateA, StateStr("running")}),
        config \in Optional({ConfigA}),
        host_config \in Optional({HostConfigA, EmptyDict}),
        network_settings \in Optional({NetworkSettingsA}),
        mounts \in Optional({MountsA})}

\* ListContainersFilters objects
FilterRequests ==
    [exited   : {FNone, FInt(0), FInt(1)},
     status   : {FNone, FEnum("running"), FEnum("exited")},
     label    : {FNone, FStr("a=1"), FStr(""), FList(<<>>), FList(<<"a=1">>),
                 FList(<<"a=1", "b">>)},
     id       : {FNone, FStr("c1")},
     name     : {FNone, FStr("web"), FStr("")},
     ancestor : {FNone, FStr("nginx")},
     before   : {FNone, FStr("c2")},
     since    : {FNone, FStr("c2")}]

\* the mapper's input is at hand, and nothing has been applied to it yet
InitMapper ==
    /\ client = 0
    /\ detailed_container_cache = EmptyCache
    /\ basic_container_cache = EmptyCache
    /\ last \in {[op |-> "listed", container |-> c] : c \in RawContainers}
          \cup {[op |-> "inspected", container |-> c] : c \in InspectContainers}
          \cup {[op |-> "filters", request |-> r] : r \in FilterRequests}
    /\ lifespan = NotStarted
    /\ tasks = NoTasks

Call__convert_container_data ==
    /\ last.op = "listed"
    /\ last' = [op |-> "_convert_container_data", container |-> last.container,
                out |-> _convert_container_data(
                            _extract_container_data(last.container))]
    /\ UNCHANGED <<client, detailed_container_cache, basic_container_cache, lifespan, tasks>>

Call_DetailedContainerInfo ==
    /\ last.op = "inspected"
    /\ last' = [op |-> "DetailedContainerInfo", container |-> last.container,
                out |-> DetailedContainerInfo(last.container)]
    /\ UNCHANGED <<client, detailed_container_cache, basic_container_cache, lifespan, tasks>>

Call_to_docker_filters ==
    /\ last.op = "filters"
    /\ last' = [op |-> "to_docker_filters", request |-> last.request,
                out |-> to_docker_filters(last.request)]
    /\ UNCHANGED <<client, detailed_container_cache, basic_container_cache, lifespan, tasks>>

----------------------------------------------------------------------------

Init ==
    /\ client = 0
    /\ detailed_container_cache = EmptyCache
    /\ basic_container_cache = EmptyCache
    /\ last = [op |-> "init"]
    /\ lifespan = NotStarted
    /\ tasks = NoTasks

NextCache ==
    \/ Call_cache_detailed_container
    \/ Call_cache_basic_container
    \/ Call_get_cached_detailed_container
    \/ Call_get_cached_basic_container
    \/ Call_clear_container_cache

SpecCache == Init /\ [][NextCache]_vars

NextFacade ==
    \/ Call_connect
    \/ Call_disconnect
    \/ Call_DockerClientManager_list_containers
    \/ Call_DockerClientManager_get_container

SpecFacade == Init /\ [][NextFacade]_vars

NextTools ==
    \/ Call_connect
    \/ Call_disconnect
    \/ Call_DockerClientManager_list_containers
    \/ Call_DockerClientManager_get_container
    \/ Call_list_containers
    \/ Call_get_container

SpecTools == Init /\ [][NextTools]_vars

\* The state the server's lifespan hands to the tools: connect() has
\* succeeded and the caches are empty.
InitSession ==
    /\ client = 1
    /\ detailed_container_cache = EmptyCache
    /\ basic_container_cache = EmptyCache
    /\ last = [op |-> "lifespan"]
    /\ lifespan = [NotStarted EXCEPT !.pc = "serving"]
    /\ tasks = NoTasks

\* What runs between the lifespan's connect() and its disconnect()
NextSession ==
    \/ Call_list_containers
    \/ Call_get_container
    \/ Call_cache_basic_container
    \/ Call_cache_detailed_container
    \/ Call_get_cached_basic_container
    \/ Call_get_cached_detailed_container

SpecSession == InitSession /\ [][NextSession]_vars

NextMapper ==
    \/ Call__convert_container_data
    \/ Call_DetailedContainerInfo
    \/ Call_to_docker_filters

SpecMapper == InitMapper /\ [][NextMapper]_vars

----------------------------------------------------------------------------
(* The server's lifespan (__init__.py) *)

\* a lifespan whose disconnect() is skipped when the session ends in an error
lifespan_exit_without_finally(cl, ending, close_raises) ==
    IF ending = "error"
    THEN [client |-> cl, raised |-> FALSE, closed |-> 0, disconnects |-> 0]
    ELSE LET out == disconnect(cl, close_raises)
         IN  [client |-> out.client, raised |-> out.raised,
              closed |-> out.closed, disconnects |-> 1]

\* finally: docker_client.disconnect(), however the body of the try ended
lifespan_exit(cl, ending, close_raises) ==
    LET out == disconnect(cl, close_raises)
    IN  [client |-> out.client, raised |-> out.raised,
         closed |-> out.closed, disconnects |-> 1]

\* docker_client = DockerClientManager(); docker_client.connect(): it stands
\* before the try, so a connect() that raises ends the lifespan there, with
\* no context and no disconnect(); otherwise the context is yielded.
Enter_lifespan ==
    /\ lifespan.pc = "start"
    /\ \E how \in {"from_env_fails", "ping_fails", "ok"}, h \in Handles :
           LET out == connect(client, how, h)
           IN  /\ client' = out.client
               /\ last' = [op |-> "connect", before |-> client, how |-> how,
                           raised |-> out.raised, created |-> out.created,
                           pings |-> out.pings]
               /\ lifespan' = [lifespan EXCEPT
                                  !.pc = IF out.raised THEN "failed" ELSE "serving"]
    /\ detailed_container_cache' = EmptyCache
    /\ basic_container_cache' = EmptyCache
    /\ UNCHANGED tasks

\* the tools run while the lifespan is suspended at its yield
Serve_list_containers ==
    /\ lifespan.pc = "serving"
    /\ Call_list_containers

Serve_get_container ==
    /\ lifespan.pc = "serving"
    /\ Call_get_container

\* the server stops: the yield returns, or an exception is thrown into it
Leave_yield ==
    /\ lifespan.pc = "serving"
    /\ \E ending \in {"normal", "error"} :
           /\ lifespan' = [lifespan EXCEPT !.pc = "finally", !.ending = ending]
           /\ last' = [op |-> "shutdown", ending |-> ending]
    /\ UNCHANGED <<client, detailed_container_cache, basic_container_cache, tasks>>

Exit_lifespan ==
    /\ lifespan.pc = "finally"
    /\ \E close_raises \in BOOLEAN :
           LET out == lifespan_exit(client, lifespan.ending, close_raises)
           IN  /\ client' = out.client
               /\ last' = [op |-> "disconnect", before |-> client,
                           close_raises |-> close_raises,
                           raised |-> out.raised, closed |-> out.closed]
               /\ lifespan' = [lifespan EXCEPT
                                  !.pc = "closed",
                                  !.disconnects = @ + out.disconnects]
    /\ UNCHANGED <<detailed_container_cache, basic_container_cache, tasks>>

NextLifespan ==
    \/ Enter_lifespan
    \/ Serve_list_containers
    \/ Serve_get_container
    \/ Leave_yield
    \/ Exit_lifespan

SpecLifespan == Init /\ [][NextLifespan]_vars

----------------------------------------------------------------------------
(* Tool calls in flight at the same time: the stores write key by key *)

\* container.attrs of the same container after it has stopped
ExitedAttrs ==
    [Image   |-> "nginx",
     Created |-> PyStr("2024-05-01T10:00:00", "Z"),
     State   |-> StateDict([Status     |-> "exited",
                            Running    |-> FALSE,
                            StartedAt  |-> PyStr("2024-05-01T10:00:00", "Z"),
                            FinishedAt |-> PyStr("2024-05-01T10:00:00", "Z")])]

\* c1, named web, as the daemon reports it before and after it stops
Versions == {[id |-> "c1", name |-> "web", attrs |-> a] : a \in {GoodAttrs, ExitedAttrs}}

\* The assignments of one store, in the order the code makes them:
\* cache[container_id] = container_info, then cache[name] = container_info
\* for each name.
StoreWrites(container_id, container_info) ==
    <<[key |-> container_id, value |-> container_info]>>
    \o [i \in 1..Len(container_info.names) |->
           [key |-> container_info.names[i], value |-> container_info]]

RECURSIVE ListWrites(_)
\* for container in containers: app_context.cache_basic_container(container)
ListWrites(containers) ==
    IF containers = <<>> THEN <<>>
    ELSE StoreWrites(Head(containers).id, Head(containers))
         \o ListWrites(Tail(containers))

\* a tool call that has returned or raised
Done(tool) == [pc |-> "done", tool |-> tool, todo |-> <<>>]

\* a tool call with cache writes left to make
Caching(tool, todo) ==
    IF todo = <<>> THEN Done(tool)
    ELSE [pc |-> "caching", tool |-> tool, todo |-> todo]

\* list_containers up to its first cache write: the facade call has returned
\* or raised
Begin_list_containers(t) ==
    /\ tasks[t].pc = "idle"
    /\ \E resp \in {[ok |-> TRUE, containers |-> <<c>>, error |-> "", text |-> ""] :
                       c \in Versions}
                   \cup {r \in ListResponses : ~r.ok} :
           LET got == DockerClientManager_list_containers(client, resp)
           IN  /\ tasks' = [tasks EXCEPT ![t] =
                               IF got.raised THEN Done("list_containers")
                               ELSE Caching("list_containers", ListWrites(got.value[1]))]
               /\ last' = [op |-> "Begin_list_containers", task |-> t,
                           raised |-> got.raised]
    /\ UNCHANGED <<client, detailed_container_cache, basic_container_cache, lifespan>>

\* get_container up to its first cache write: the cached record is returned,
\* or the facade call has returned or raised
Begin_get_container(t) ==
    /\ tasks[t].pc = "idle"
    /\ \E k \in KeyArgs, use_cache \in BOOLEAN :
           \E resp \in {[ok |-> TRUE, container |-> <<c>>, error |-> "", text |-> ""] :
                           c \in {d \in Versions : Resolves(k, d)}}
                       \cup {r \in InspectResponses(k) : ~r.ok} :
               LET cached == get_cached_detailed_container(detailed_container_cache, k)
                   got == DockerClientManager_get_container(client, k, resp)
               IN  /\ tasks' = [tasks EXCEPT ![t] =
                                   IF use_cache /\ cached # <<>> THEN Done("get_container")
                                   ELSE IF got.raised THEN Done("get_container")
                                   ELSE Caching("get_container",
                                                StoreWrites(got.value[1].id, got.value[1]))]
                   /\ last' = [op |-> "Begin_get_container", task |-> t,
                               raised |-> ~(use_cache /\ cached # <<>>) /\ got.raised]
    /\ UNCHANGED <<client, detailed_container_cache, basic_container_cache, lifespan>>

\* the next assignment of a store in progress; after the last one the tool
\* returns
Write_cache(t) ==
    /\ tasks[t].pc = "caching"
    /\ LET w == Head(tasks[t].todo)
       IN  IF tasks[t].tool = "list_containers"
           THEN /\ basic_container_cache' = Put(basic_container_cache, w.key, w.value)
                /\ UNCHANGED detailed_container_cache
           ELSE /\ detailed_container_cache' =
                       Put(detailed_container_cache, w.key, w.value)
                /\ UNCHANGED basic_container_cache
    /\ tasks' = [tasks EXCEPT ![t] = Caching(tasks[t].tool, Tail(tasks[t].todo))]
    /\ last' = [op |-> "Write_cache", task |-> t, raised |-> FALSE]
    /\ UNCHANGED <<client, lifespan>>

\* a finished request leaves; its slot takes the next request
Finish(t) ==
    /\ tasks[t].pc = "done"
    /\ tasks' = [tasks EXCEPT ![t] = Idle]
    /\ last' = [op |-> "Finish", task |-> t, raised |-> FALSE]
    /\ UNCHANGED <<client, detailed_container_cache, basic_container_cache, lifespan>>

NextConcurrent ==
    \E t \in Tasks :
        \/ Begin_list_containers(t)
        \/ Begin_get_container(t)
        \/ Write_cache(t)
        \/ Finish(t)

SpecConcurrent == InitSession /\ [][NextConcurrent]_vars

----------------------------------------------------------------------------
(* Result cache *)

StoreOps == {"cache_basic_container", "cache_detailed_container"}

\* the records clear_container_cache(key) found under its key before it ran
Evicted == Range(last.was_detailed) \cup Range(last.was_basic)

\* C1: after clear_container_cache(k), where k is the id or a name under which
\* a record R was cached, neither R's id nor any name of R is a key of the
\* summary cache or of the detail cache.
C1_EvictRemovesEveryAlias ==
    (last.op = "clear_container_cache" /\ Truthy(last.key)) =>
        \A R \in Evicted : \A a \in Aliases(R) :
            /\ a \notin DOMAIN detailed_container_cache
            /\ a \notin DOMAIN basic_container_cache

Coherent(cache) ==
    \A k \in DOMAIN cache : \A a \in Aliases(cache[k]) :
        a \in DOMAIN cache /\ cache[a] = cache[k]

\* C2: alias coherence: in every reachable state, every record a cache holds
\* under some key is held by that cache under its id and each of its names.
C2_AliasCoherence ==
    Coherent(detailed_container_cache) /\ Coherent(basic_container_cache)

\* C3: right after a record R is stored, the lookup of R's id and of each of
\* R's names in the cache it was stored in returns R, whatever the cache held.
C3_StoreThenLookup ==
    /\ last.op = "cache_basic_container" =>
           \A a \in Aliases(last.info) :
               get_cached_basic_container(basic_container_cache, a) = <<last.info>>
    /\ last.op = "cache_detailed_container" =>
           \A a \in Aliases(last.info) :
               get_cached_detailed_container(detailed_container_cache, a) = <<last.info>>

\* a named record was stored over a cache that held records of another container
C3_Witness ==
    /\ last.op = "cache_basic_container"
    /\ last.info.names # <<>>
    /\ \E k \in DOMAIN basic_container_cache :
           basic_container_cache[k].id # last.info.id
    /\ \A a \in Aliases(last.info) :
           get_cached_basic_container(basic_container_cache, a) = <<last.info>>

\* C4: store(R) followed by clear_container_cache(R.id) leaves neither R's id
\* nor any name of R as a key of the summary cache or of the detail cache.
C4_StoreThenEvict ==
    [][(/\ last.op \in StoreOps
        /\ last'.op = "clear_container_cache"
        /\ last'.key = last.info.id)
       => \A a \in Aliases(last.info) :
              /\ get_cached_basic_container(basic_container_cache', a) = <<>>
              /\ get_cached_detailed_container(detailed_container_cache', a) = <<>>]_vars

----------------------------------------------------------------------------
(* Daemon client facade *)

FacadeOps == {"DockerClientManager.list_containers", "DockerClientManager.get_container"}

ToolOps == {"list_containers", "get_container"}

NotConnectedMessages ==
    {<<"Docker client is not connected. Call connect() first.">>,
     <<"Docker client is not connected">>}

\* C5: a connect() that raises leaves the facade Disconnected.
C5_FailedConnectLeavesDisconnected ==
    (last.op = "connect" /\ last.raised) => client = 0

\* C6: connect() in Connected state creates no session, performs no probe,
\* raises nothing and leaves the connection handle as it was.
C6_ConnectIdempotent ==
    (last.op = "connect" /\ last.before # 0) =>
        /\ last.created = 0
        /\ last.pings = 0
        /\ ~last.raised
        /\ client = last.before

\* connect() ran on a connected facade while the daemon would have failed the probe
C6_Witness ==
    /\ last.op = "connect"
    /\ last.before # 0
    /\ last.how = "ping_fails"
    /\ client = last.before

\* C7: disconnect() raises nothing and ends Disconnected, whether close()
\* succeeds or raises; in Disconnected state it closes nothing.
C7_DisconnectAlwaysResets ==
    last.op = "disconnect" =>
        /\ ~last.raised
        /\ client = 0
        /\ (last.before = 0 => last.closed = 0)

\* disconnect() ran on a connected facade and close() raised
C7_Witness ==
    /\ last.op = "disconnect"
    /\ last.before # 0
    /\ last.close_raises
    /\ client = 0

\* C8: in Disconnected state list_containers and get_container of the facade
\* raise the not-connected error, make no remote call and stay Disconnected.
C8_DisconnectedCallsFail ==
    (last.op \in FacadeOps /\ last.before = 0) =>
        /\ last.out.raised
        /\ last.out.type = "RuntimeError"
        /\ last.out.msg \in NotConnectedMessages
        /\ last.out.remote = 0
        /\ client = 0

\* get_container ran on a disconnected facade for an identifier the daemon knows
C8_Witness ==
    /\ last.op = "DockerClientManager.get_container"
    /\ last.before = 0
    /\ last.resp.ok
    /\ last.out.raised

\* C9: in Connected state each facade call makes exactly one remote call,
\* whether it succeeds or fails, and a tool call makes at most one.
C9_NoRetries ==
    /\ (last.op \in FacadeOps /\ last.before # 0) => last.out.remote = 1
    /\ last.op \in ToolOps => last.out.remote <= 1

\* a tool call whose one remote call failed
C9_Witness ==
    /\ last.op = "list_containers"
    /\ last.before # 0
    /\ ~last.resp.ok
    /\ last.out.raised
    /\ last.out.remote = 1

NotFoundMessage(msg, container_id) ==
    \E i \in DOMAIN msg :
        /\ msg[i] = "Container not found: "
        /\ i + 1 \in DOMAIN msg
        /\ msg[i + 1] = container_id

\* C10: when the daemon answers not-found to the inspect call for x, the
\* facade's get_container(x) and the tool's get_container(x) raise an error
\* whose message is "Container not found: " followed by x.
C10_NotFoundNamesIdentifier ==
    (/\ last.op \in {"DockerClientManager.get_container", "get_container"}
     /\ last.out.remote = 1
     /\ last.resp.error = "NotFound")
    => /\ last.out.raised
       /\ NotFoundMessage(last.out.msg, last.key)

\* the tool re-wrapped a not-found answer for a short id
C10_Witness ==
    /\ last.op = "get_container"
    /\ last.key \in ShortIds
    /\ last.resp.error = "NotFound"
    /\ last.out.remote = 1
    /\ Len(last.out.msg) = 3

\* C11: when the inspect call of the facade's get_container fails with anything
\* but not-found, get_container raises an error that carries the failure's text
\* and is not a "Container not found" error; a "Container not found" error is
\* raised only after the daemon answered not-found.
C11_OtherFailuresCarryText ==
    last.op = "DockerClientManager.get_container" =>
        /\ (/\ last.out.remote = 1
            /\ ~last.resp.ok
            /\ last.resp.error # "NotFound")
           => /\ last.out.raised
              /\ last.resp.text \in Range(last.out.msg)
              /\ "Container not found: " \notin Range(last.out.msg)
        /\ (last.out.raised /\ "Container not found: " \in Range(last.out.msg))
           => (last.out.remote = 1 /\ last.resp.error = "NotFound")

\* the daemon failed the inspect call of a connected facade with a server error
C11_Witness ==
    /\ last.op = "DockerClientManager.get_container"
    /\ last.before # 0
    /\ last.resp.error = "APIError"
    /\ last.out.raised
    /\ last.out.msg = <<"Failed to get container information: ", "500 Server Error">>

----------------------------------------------------------------------------
(* Record mapper, detail mapper and filter builder *)

\* the raw State.<key> of a listed container: <<>> when State is no dict or
\* has no such key
RawStateTime(container, key) ==
    IF "State" \in DOMAIN container.attrs /\ container.attrs.State.py = "dict"
    THEN DictOpt(container.attrs.State.d, key)
    ELSE <<>>

ZeroOrEmpty(v) == v \in {PyNone, PyInt(0), PyStr("", "")}

\* a string that is no ISO 8601 date-time
Unparsable(v) ==
    /\ v.py = "str"
    /\ ~ZeroOrEmpty(v)
    /\ (v.body \notin IsoBodies \/ v.suffix \notin IsoOffsets \cup {"", "Z"})

\* the instant a date-time text or a positive epoch number denotes
Instant(v) ==
    IF v.py = "int"
    THEN Datetime("epoch", "", v.n, "+00:00")
    ELSE Datetime("iso", v.body, 0,
                  IF v.suffix \in {"", "Z"} THEN "+00:00" ELSE v.suffix)

NullOrInstant(raw, result) ==
    IF raw = <<>> \/ ZeroOrEmpty(raw[1]) \/ Unparsable(raw[1])
    THEN result = NoDatetime
    ELSE (raw[1].py = "int" /\ raw[1].n < 0) \/ result = Instant(raw[1])

\* C12: in every summary the record mapper produces, created_at is not null,
\* and started_at (finished_at) is null when the raw State.StartedAt
\* (State.FinishedAt) is absent, zero or empty, or an unparsable string, and
\* is the parsed instant otherwise.
C12_SummaryTimes ==
    (last.op = "_convert_container_data" /\ last.out.ok) =>
        /\ last.out.value[1].created_at # NoDatetime
        /\ NullOrInstant(RawStateTime(last.container, "StartedAt"),
                         last.out.value[1].started_at)
        /\ NullOrInstant(RawStateTime(last.container, "FinishedAt"),
                         last.out.value[1].finished_at)

\* C13: the record mapper returns a typed record for every raw container
\* record that has an id, whatever its optional fields hold or lack.
C13_MapperTotal ==
    last.op = "_convert_container_data" => last.out.ok

Sections == {"Config", "HostConfig", "State", "NetworkSettings", "Mounts"}

\* the default every field read from a section takes when the section is absent
\* (<<>> is None, an empty list or an empty dict)
SectionDefaults(section) ==
    CASE section = "Config" ->
             [entrypoint |-> <<>>, cmd |-> <<>>, working_dir |-> <<>>,
              user |-> <<>>, hostname |-> <<>>, domainname |-> <<>>,
              env |-> <<>>, labels |-> <<>>, exposed_ports |-> <<>>,
              volumes |-> <<>>, health_check |-> <<>>, tty |-> FALSE,
              stdin_open |-> FALSE]
      [] section = "HostConfig" ->
             [network_mode |-> "default",
              restart_policy |-> [name |-> "no", maximum_retry_count |-> 0],
              resources |-> [cpu_shares |-> <<>>, cpu_period |-> <<>>,
                             cpu_quota |-> <<>>, cpuset_cpus |-> <<>>,
                             cpuset_mems |-> <<>>, memory |-> <<>>,
                             memory_swap |-> <<>>, memory_reservation |-> <<>>,
                             kernel_memory |-> <<>>, blkio_weight |-> <<>>,
                             pids_limit |-> <<>>],
              privileged |-> FALSE, cap_add |-> <<>>, cap_drop |-> <<>>,
              log_config |-> <<>>, extra_hosts |-> <<>>, group_add |-> <<>>,
              security_opt |-> <<>>]
      [] section = "State" ->
             [state |-> "", status |-> "unknown", exit_code |-> <<>>,
              error |-> <<>>, running |-> FALSE, paused |-> FALSE,
              restarting |-> FALSE, pid |-> <<>>]
      [] section = "NetworkSettings" -> [networks |-> <<>>]
      [] section = "Mounts" -> [mounts |-> <<>>]

\* the fields of the detail record read from a section
SectionFields(section) ==
    IF section = "State"
    THEN DOMAIN SectionDefaults(section) \cup {"started_at", "finished_at"}
    ELSE DOMAIN SectionDefaults(section)

\* the fields read from no section
TopLevelFields ==
    {"id", "names", "image", "created_at", "ports", "image_id"}

\* nothing in the raw record has a content the mapper rejects
WellFormed(container) ==
    /\ "Ports" \in DOMAIN container.attrs =>
           \A i \in DOMAIN container.attrs.Ports :
               DictGet(container.attrs.Ports[i], "Type", "tcp") \in PortTypes
    /\ "State" \in DOMAIN container.attrs => container.attrs.State.py = "dict"

C15_FilterKeysAndValues ==
    last.op = "to_docker_filters" =>
        LET request == last.request
            filters == last.out
        IN  /\ DOMAIN filters = {f \in FilterFields : request[f] # FNone}
            /\ \A f \in DOMAIN filters :
                   filters[f] =
                       IF f = "status" THEN FStr(request[f].s)
                       ELSE IF f = "label" /\ request[f].py = "str"
                       THEN FList(<<request[f].s>>)
                       ELSE request[f]
            /\ (\A f \in FilterFields : request[f] = FNone) => filters = <<>>

\* a request with a zero exit code, a status, a single label and an empty name
C15_Witness ==
    /\ last.op = "to_docker_filters"
    /\ last.request.exited = FInt(0)
    /\ last.request.label = FStr("a=1")
    /\ last.request.name = FStr("")
    /\ last.request.id = FNone
    /\ last.out.status = FStr("running")
    /\ last.out.label = FList(<<"a=1">>)
    /\ DOMAIN last.out = {"exited", "status", "label", "name"}

----------------------------------------------------------------------------
(* Tool surface *)

ListOps == {"DockerClientManager.list_containers", "list_containers"}

\* the summaries a successful list call returned
Returned ==
    IF last.op = "list_containers"
    THEN last.out.value[1].containers
    ELSE last.out.value[1]

\* C16: in Connected state, when the daemon answers the list call,
\* list_containers makes that one call and returns one summary per raw record,
\* in the daemon's order (none for an empty answer, and no error); the tool's
\* total_count is the length of the list, and every returned summary is in the
\* summary cache under its id and each of its names.
C16_OneSummaryPerRecord ==
    (last.op \in ListOps /\ last.before # 0 /\ last.resp.ok) =>
        /\ ~last.out.raised
        /\ last.out.remote = 1
        /\ Len(Returned) = Len(last.resp.containers)
        /\ \A i \in DOMAIN Returned :
               /\ Returned[i].id = last.resp.containers[i].id
               /\ Returned[i].image = last.resp.containers[i].attrs.Image
        /\ last.op = "list_containers" =>
               /\ last.out.value[1].total_count = Len(Returned)
               /\ \A i \in DOMAIN Returned : \A a \in Aliases(Returned[i]) :
                      get_cached_basic_container(basic_container_cache, a)
                          = <<Returned[i]>>

IsSuffix(s, t) ==
    /\ Len(s) <= Len(t)
    /\ SubSeq(t, Len(t) - Len(s) + 1, Len(t)) = s

\* what the facade call under the last tool call did
Underlying ==
    IF last.op = "list_containers"
    THEN DockerClientManager_list_containers(last.before, last.resp)
    ELSE DockerClientManager_get_container(last.before, last.key, last.resp)

\* C17: whenever a tool call fails (not connected, not found, remote failure,
\* mapping failure), what reaches its caller is a RuntimeError whose message
\* ends with the text of the underlying error: the not-connected text, the
\* not-found text with the identifier, or the daemon's text.
C17_ToolFailuresAreRuntimeErrors ==
    (last.op \in ToolOps /\ last.out.raised) =>
        /\ last.out.type = "RuntimeError"
        /\ Underlying.raised
        /\ IsSuffix(Underlying.msg, last.out.msg)
        /\ (last.out.remote = 1 /\ last.resp.error = "NotFound") =>
               NotFoundMessage(last.out.msg, last.key)
        /\ (last.out.remote = 1 /\ last.resp.error = "APIError") =>
               last.resp.text \in Range(last.out.msg)
        /\ last.before = 0 =>
               \E m \in NotConnectedMessages : IsSuffix(m, last.out.msg)

\* the list tool failed on a record the mapper rejects
C17_Witness ==
    /\ last.op = "list_containers"
    /\ last.before # 0
    /\ last.resp.ok
    /\ last.out.raised
    /\ last.out.type = "RuntimeError"
    /\ last.out.msg = <<"Unexpected error listing containers: ",
                        "is not a valid DockerPortType">>

\* C18: the get_container tool returns the detail record cached under the
\* requested key, without a remote call, when use_cache is true and there is
\* one; otherwise it makes one inspect call and, when that succeeds, returns
\* the fetched record and holds it in the detail cache under its id and each
\* of its names.
C18_CacheOnlyWhenAsked ==
    [][last'.op = "get_container" =>
           IF last'.use_cache /\ last'.key \in DOMAIN detailed_container_cache
           THEN /\ last'.out = Return(detailed_container_cache[last'.key], 0)
                /\ UNCHANGED detailed_container_cache
           ELSE /\ last'.out.remote = 1
                /\ ~last'.out.raised =>
                       /\ last'.out.value
                              = DetailedContainerInfo(last'.resp.container[1]).value
                       /\ \A a \in Aliases(last'.out.value[1]) :
                              get_cached_detailed_container(
                                  detailed_container_cache', a) = last'.out.value
                       /\ \A k \in DOMAIN detailed_container_cache
                                    \ Aliases(last'.out.value[1]) :
                              get_cached_detailed_container(
                                  detailed_container_cache', k)
                                  = <<detailed_container_cache[k]>>]_vars

\* a record was fetched although a record was cached under the requested key
C18_Witness ==
    /\ last.op = "get_container"
    /\ ~last.use_cache
    /\ last.key = "web"
    /\ ~last.out.raised
    /\ last.out.remote = 1
    /\ detailed_container_cache["web"] = last.out.value[1]
    /\ detailed_container_cache["c1"] = last.out.value[1]

\* C19: after a successful get_container(k), the next get_container(k) with
\* use_cache=true returns the same record without a remote call, whether k is
\* a full id, a short id or a name.
C19_RepeatHitsCache ==
    [][(/\ last.op = "get_container"
        /\ ~last.out.raised
        /\ last'.op = "get_container"
        /\ last'.key = last.key
        /\ last'.use_cache)
       => /\ ~last'.out.raised
          /\ last'.out.remote = 0
          /\ last'.out.value = last.out.value]_vars

\* C20: storing a summary leaves the detail cache as it was, storing a detail
\* record leaves the summary cache as it was, a lookup changes neither, and
\* get_container returns, calls the daemon and stores as it would with an
\* empty summary cache.
C20_CachesIndependent ==
    [][/\ last'.op \in {"cache_basic_container", "list_containers"} =>
              UNCHANGED detailed_container_cache
       /\ last'.op \in {"cache_detailed_container", "get_container"} =>
              UNCHANGED basic_container_cache
       /\ last'.op \in {"get_cached_basic_container",
                        "get_cached_detailed_container"} =>
              UNCHANGED <<detailed_container_cache, basic_container_cache>>
       /\ last'.op = "get_container" =>
              LET alone == get_container(client, detailed_container_cache,
                                         EmptyCache, last'.key, last'.use_cache,
                                         last'.resp)
              IN  /\ last'.out = alone.out
                  /\ detailed_container_cache' = alone.detailed]_vars

\* get_container fetched a record for a key the summary cache holds
C20_Witness ==
    /\ last.op = "get_container"
    /\ last.key \in DOMAIN basic_container_cache
    /\ ~last.out.raised
    /\ last.out.remote = 1
    /\ detailed_container_cache[last.key] = last.out.value[1]
    /\ basic_container_cache[last.key] # last.out.value[1]

----------------------------------------------------------------------------
(* Eviction, failed calls, and the two mappers side by side *)

\* C21: clear_container_cache() with no key empties both caches, and
\* clear_container_cache(k) with a string k that is a key of neither cache
\* leaves both caches as they were.
C21_ClearAllOrNothing ==
    [][last'.op = "clear_container_cache" =>
           /\ last'.key = None =>
                  /\ detailed_container_cache' = EmptyCache
                  /\ basic_container_cache' = EmptyCache
           /\ (/\ last'.key # None
               /\ last'.key \notin DOMAIN detailed_container_cache
               /\ last'.key \notin DOMAIN basic_container_cache)
              => UNCHANGED <<detailed_container_cache, basic_container_cache>>]_vars

\* every key of the cache that held a record of another container than the
\* one under container_id still holds that record in the cache after the call
OthersKept(cache, after, container_id) ==
    LET evicted == Get(cache, container_id)
    IN  \A k \in DOMAIN cache :
            (evicted = <<>> \/ cache[k].id # evicted[1].id)
                => Get(after, k) = <<cache[k]>>

\* C22: clear_container_cache(k) with a non-empty key k removes only the
\* record stored under k: in both caches every key that held a record of
\* another container still holds it afterwards.
C22_EvictsOnlyItsRecord ==
    [][(last'.op = "clear_container_cache" /\ Truthy(last'.key)) =>
           /\ OthersKept(detailed_container_cache, detailed_container_cache',
                         last'.key)
           /\ OthersKept(basic_container_cache, basic_container_cache',
                         last'.key)]_vars

\* C23: a tool call that raises leaves the summary cache and the detail cache
\* exactly as they were before the call.
C23_FailedCallChangesNoCache ==
    [][(last'.op \in ToolOps /\ last'.out.raised) =>
           UNCHANGED <<detailed_container_cache, basic_container_cache>>]_vars

\* a refresh with use_cache=false failed at the daemon and the record fetched
\* earlier is still cached under the requested key
C23_Witness ==
    /\ last.op = "get_container"
    /\ ~last.use_cache
    /\ last.out.raised
    /\ last.out.remote = 1
    /\ last.key \in DOMAIN detailed_container_cache
    /\ detailed_container_cache[last.key].id = "c1"
    /\ last.key \in DOMAIN basic_container_cache

SharedFields ==
    {"id", "names", "image", "state", "created_at", "started_at",
     "finished_at", "ports"}

\* C24: for the same raw container, the detail record get_container builds
\* and the summary list_containers builds agree on id, names, image, state,
\* created_at, started_at, finished_at and ports.
C24_DetailExtendsSummary ==
    (last.op = "DetailedContainerInfo" /\ last.out.ok) =>
        LET summary == _convert_container_data(
                           _extract_container_data(last.container))
        IN  /\ summary.ok
            /\ \A f \in SharedFields :
                   last.out.value[1][f] = summary.value[1][f]

----------------------------------------------------------------------------
(* The lifespan around the tool calls *)

\* C25: the daemon connection is opened before the context exists, so every
\* tool call finds a handle; disconnect() runs exactly once, after the last
\* tool call, whether the session ended normally or in an error; and when
\* connect() fails there is no context, no tool call and no disconnect().
C25_LifespanOrder ==
    /\ lifespan.pc = "serving" => client # 0
    /\ last.op \in ToolOps => (lifespan.pc = "serving" /\ last.before # 0)
    /\ lifespan.pc \in {"start", "serving", "finally"} => lifespan.disconnects = 0
    /\ lifespan.pc = "failed" =>
           /\ last.op = "connect" /\ last.raised
           /\ lifespan.disconnects = 0
           /\ detailed_container_cache = EmptyCache
           /\ basic_container_cache = EmptyCache
    /\ lifespan.pc = "closed" =>
           /\ lifespan.disconnects = 1
           /\ last.op = "disconnect" /\ last.before # 0
           /\ client = 0

\* a session that served tool calls, ended in an error, and was closed by a
\* disconnect() whose close() raised
C25_Witness ==
    /\ lifespan.pc = "closed"
    /\ lifespan.ending = "error"
    /\ lifespan.disconnects = 1
    /\ last.op = "disconnect" /\ last.close_raises
    /\ basic_container_cache # EmptyCache
    /\ detailed_container_cache # EmptyCache
    /\ client = 0

----------------------------------------------------------------------------
(* Stores that interleave *)

\* no tool call is part-way through a store
Quiescent == \A t \in Tasks : tasks[t].pc # "caching"

====
